---------------------------- MODULE Spec2Model ----------------------------
(***************************************************************************)
(* A model of the two research scripts of the dual-camera-app repository:  *)
(*                                                                         *)
(*   research_dual_camera_apps.py   the collector: App Store searches,     *)
(*                                  de-duplication, ranking, snapshot      *)
(*   detailed_feature_research.py   the enricher: review pagination,       *)
(*                                  review classification, enriched        *)
(*                                  snapshot                               *)
(*                                                                         *)
(* Text is a sequence of one-character strings.  A float rating r is the   *)
(* integer 10 * r (3.5 is 35).  A response of an API is received one       *)
(* element at a time: the loops of the scripts read each element once, in  *)
(* order, and never look ahead.                                            *)
(***************************************************************************)
EXTENDS Integers, Sequences, FiniteSets, TLC

VARIABLES
    pc,            \* collector: the place main() has reached
    term,          \* collector: search terms whose request has been issued
    recv,          \* elements of the current response consumed so far
    mixcam,        \* research_data['mixcam']
    competitors,   \* research_data['competitors']
    seen_apps,     \* seen_apps
    rq,            \* collector: reddit queries issued
    snapshot,      \* app_store_data.json, as last written
    requests,      \* history: every request issued, in order
    first,         \* history: per trackId, the competitor built from its first record
    dropped,       \* history: a later, different record of a seen trackId was received
    raised,        \* collector: the line of the statement that raised, 0 for none
    epc,           \* enricher: the place main() has reached
    data,          \* enricher: the loaded document
    page,          \* get_app_reviews: pages requested so far
    fetched,       \* history: per page requested, how many reviews its body held
    all_reviews,   \* get_app_reviews: all_reviews, then main's reviews
    idx,           \* analyze_reviews: reviews classified so far
    complaints,    \* analyze_reviews: complaints
    features_requested,  \* analyze_reviews: features_requested
    positive_features,   \* analyze_reviews: positive_features
    enriched,      \* comprehensive_research.json, as last written
    eraised        \* enricher: the line of the statement that raised, 0 for none

cvars == <<pc, term, recv, mixcam, competitors, seen_apps, rq, snapshot,
           requests, first, dropped, raised>>
evars == <<epc, data, page, fetched, all_reviews, idx, complaints,
           features_requested, positive_features, enriched, eraised>>
vars == <<cvars, evars>>

(***************************************************************************)
(* Bounds of the model.                                                    *)
(***************************************************************************)
MaxIds == 2          \* distinct trackIds the search API returns
MaxResults == 2      \* elements of one search response
MaxCandidates == 11  \* candidates handed to the ranking step on its own
MaxEntries == 2      \* reviews of one feed page
MaxReviews == 2      \* reviews handed to analyze_reviews on its own
LongLen == 500       \* characters of the longest review content

(***************************************************************************)
(* Program constants.                                                      *)
(***************************************************************************)
TopN == 10           \* sorted(...)[:10]
DescLen == 200       \* description[:200]
MixDescLen == 500    \* description[:500]
SnippetLen == 200    \* content[:200]
MaxPages == 5        \* get_app_reviews(mixcam_id, max_pages=5)
BucketCap == 10      \* complaints[:10], feature_requests[:10], positive[:10]

(***************************************************************************)
(* Python values.                                                          *)
(***************************************************************************)
\* A value is tagged with its Python type; v is its payload.
Str(s) == [t |-> "str", v |-> s]
Num(n) == [t |-> "num", v |-> n]
NoneV == [t |-> "none", v |-> 0]     \* None, JSON null
AbsentV == [t |-> "absent", v |-> 0] \* the key is not in the mapping
EmptyDict == [t |-> "empty"]         \* {}

Min(a, b) == IF a <= b THEN a ELSE b

\* s[:n]
Take(s, n) == SubSeq(s, 1, Min(n, Len(s)))

Reverse(s) == [i \in 1..Len(s) |-> s[Len(s) + 1 - i]]

Range(s) == {s[i] : i \in 1..Len(s)}

UpperCase == <<"A","B","C","D","E","F","G","H","I","J","K","L","M",
               "N","O","P","Q","R","S","T","U","V","W","X","Y","Z">>
LowerCase == <<"a","b","c","d","e","f","g","h","i","j","k","l","m",
               "n","o","p","q","r","s","t","u","v","w","x","y","z">>

LowerOf ==
    [c \in Range(UpperCase) |->
        LowerCase[CHOOSE i \in 1..Len(UpperCase) : UpperCase[i] = c]]

\* str.lower() of one ASCII character
LowerChar(c) == IF c \in DOMAIN LowerOf THEN LowerOf[c] ELSE c

\* str.lower()
Lower(s) == [i \in 1..Len(s) |-> LowerChar(s[i])]

\* text[at:at+len(kw)] == kw
MatchAt(kw, text, at) ==
    /\ at + Len(kw) - 1 <= Len(text)
    /\ \A k \in 1..Len(kw) : text[at + k - 1] = kw[k]

\* kw in text
In(kw, text) ==
    \E at \in 1..(Len(text) - Len(kw) + 1) : MatchAt(kw, text, at)


(***************************************************************************)
(* research_dual_camera_apps.py                                            *)
(***************************************************************************)
NumTerms == 4        \* len(search_terms)
NumReddit == 3       \* len(reddit_queries)

kw_mixcam == <<"m","i","x","c","a","m">>
txt_NA == <<"N","/","A">>
txt_MixCam == <<"M","i","x","C","a","m">>
txt_Duo == <<"D","u","o">>
txt_desc == <<"2"," ","c","a","m","s">>

Ratings == {35, 48}
Counts == {50, 200}

\* One element of a 'results' list.  kind "other" is an element that is no
\* JSON object.  trackId 0 stands for a missing (None) or zero trackId: both
\* are falsy.  A missing userRatingCount reads as 0.
App(id, name, rating, count, desc) ==
    [kind |-> "dict", trackId |-> id, trackName |-> name,
     averageUserRating |-> rating, userRatingCount |-> count,
     description |-> desc]

NonMappingApp ==
    [kind |-> "other", trackId |-> 0, trackName |-> AbsentV,
     averageUserRating |-> AbsentV, userRatingCount |-> 0,
     description |-> AbsentV]

\* what the request of search_app_store / search_reddit can end in
Outcomes ==
    {"exception", "non200", "badjson",           \* the function returns None
     "falsy", "nonmapping",                      \* 200, body no JSON object
     "noresults", "nonlist", "list"}             \* 200, body a JSON object

\* search_app_store(query) is None
ReturnsNone(o) == o \in {"exception", "non200", "badjson"}

\* results and results.get('results') is falsy
NoData(o) == ReturnsNone(o) \/ o \in {"falsy", "noresults"}

\* app.get(key, '') of a text field
GetText(field) == IF field.t = "absent" THEN Str(<<>>) ELSE field

\* app.get(key)
Get(field) == IF field.t = "absent" THEN NoneV ELSE field

\* app.get('averageUserRating', 'N/A')
GetRating(field) == IF field.t = "absent" THEN Str(txt_NA) ELSE field

\* the competitor entry of lines 115-124; id records the trackId it was
\* built for (the entry itself does not store it)
Competitor(app) ==
    [id |-> app.trackId,
     name |-> Get(app.trackName),
     rating |-> GetRating(app.averageUserRating),
     rating_count |-> app.userRatingCount,
     description_snippet |-> Take(GetText(app.description).v, DescLen)]

\* the mixcam entry of lines 79-93
MixcamEntry(app) ==
    [t |-> "dict",
     name |-> Get(app.trackName),
     rating |-> GetRating(app.averageUserRating),
     rating_count |-> app.userRatingCount,
     description |-> Take(GetText(app.description).v, MixDescLen),
     app_id |-> app.trackId]

\* 'mixcam' in app.get('trackName', '').lower()
IsMixcam(app) == In(kw_mixcam, Lower(GetText(app.trackName).v))

\* the statements that raise on this element: .get of a non-mapping,
\* .lower() of None, None[:n]
MixcamAppRaises(app) ==
    \/ app.kind # "dict"
    \/ app.trackName.t = "none"
    \/ IsMixcam(app) /\ app.description.t = "none"

TermAppRaises(app) ==
    \/ app.kind # "dict"
    \/ /\ app.trackId # 0
       /\ app.trackId \notin seen_apps
       /\ app.description.t = "none"

\* a de-duplication that forgets the seen-set
IsNewAnyId(app) == app.trackId # 0

\* app_id and app_id not in seen_apps
IsNew(app) == app.trackId # 0 /\ app.trackId \notin seen_apps

(***************************************************************************)
(* sorted(competitors, key=(rating, rating_count), reverse=True)           *)
(***************************************************************************)
\* x < y of two ratings of the same type; the only str rating is 'N/A'
RatingLess(x, y) == IF x.t = "num" THEN x.v < y.v ELSE FALSE

\* a key that compares rating_count before rating
KeyLessCountFirst(a, b) ==
    IF a.rating_count = b.rating_count
    THEN RatingLess(a.rating, b.rating)
    ELSE a.rating_count < b.rating_count

\* key(a) < key(b) of the tuples (rating, rating_count)
KeyLess(a, b) ==
    IF a.rating = b.rating
    THEN a.rating_count < b.rating_count
    ELSE RatingLess(a.rating, b.rating)

\* '<' not supported between instances of 'str' and 'float'
SortRaises(list) ==
    \E i, j \in 1..Len(list) : list[i].rating.t # list[j].rating.t

\* x placed behind every element that is not greater than it
RECURSIVE InsertSorted(_, _)
InsertSorted(x, s) ==
    IF s = <<>> THEN <<x>>
    ELSE IF KeyLess(x, Head(s)) THEN <<x>> \o s
    ELSE <<Head(s)>> \o InsertSorted(x, Tail(s))

\* list.sort(): ascending and stable
RECURSIVE StableSortAsc(_)
StableSortAsc(list) ==
    IF list = <<>> THEN <<>>
    ELSE InsertSorted(list[Len(list)], StableSortAsc(SubSeq(list, 1, Len(list) - 1)))

\* a descending order got by reversing the ascending one
SortedThenReversed(list) == Reverse(StableSortAsc(list))

\* reverse=True: the list is reversed, sorted ascending, and reversed again
SortedReverse(list) == Reverse(StableSortAsc(Reverse(list)))

Ranked(list) == Take(SortedReverse(list), TopN)

(***************************************************************************)
(* main() of the collector, lines 58-164.                                  *)
(***************************************************************************)
NoFirst == [t |-> "nofirst"]

InitCollector ==
    /\ pc = "mixcam"
    /\ term = 0
    /\ recv = 0
    /\ mixcam = EmptyDict
    /\ competitors = <<>>
    /\ seen_apps = {}
    /\ rq = 0
    /\ snapshot = [written |-> FALSE]
    /\ requests = <<>>
    /\ first = [i \in 1..MaxIds |-> NoFirst]
    /\ dropped = FALSE
    /\ raised = 0

\* the enricher at a place of its main(), nothing fetched or classified yet
InitEnricherAt(place, reviews) ==
    /\ epc = place
    /\ data = EmptyDict
    /\ page = 0
    /\ fetched = <<>>
    /\ all_reviews = reviews
    /\ idx = 0
    /\ complaints = <<>>
    /\ features_requested = <<>>
    /\ positive_features = <<>>
    /\ enriched = [written |-> FALSE]
    /\ eraised = 0

InitEnricherIdle == InitEnricherAt("idle", <<>>)

\* one request is issued
Issue(api, q) == requests' = Append(requests, [api |-> api, q |-> q])

\* lines 75-77: search_app_store("mixcam dual camera") and the test of its result
MixcamSearch(o) ==
    /\ pc = "mixcam"
    /\ Issue("search", 0)
    /\ recv' = 0
    /\ pc' = IF NoData(o) THEN "terms"
             ELSE IF o = "list" THEN "mixcam_loop"
             ELSE "crashed"
    /\ raised' = IF o = "nonmapping" THEN 76 ELSE IF o = "nonlist" THEN 77 ELSE 0
    /\ UNCHANGED <<term, mixcam, competitors, seen_apps, rq, snapshot, first,
                   dropped>>
    /\ UNCHANGED evars

\* lines 77-96: one element of mixcam_results['results']
MixcamApp(app) ==
    /\ pc = "mixcam_loop"
    /\ recv < MaxResults
    /\ recv' = recv + 1
    /\ IF MixcamAppRaises(app)
       THEN /\ pc' = "crashed"
            /\ raised' = IF app.kind = "dict" /\ app.trackName.t # "none"
                          THEN 87 ELSE 78
            /\ UNCHANGED mixcam
       ELSE IF IsMixcam(app)
       THEN pc' = "terms" /\ mixcam' = MixcamEntry(app) /\ UNCHANGED raised
       ELSE pc' = "mixcam_loop" /\ UNCHANGED <<mixcam, raised>>
    /\ UNCHANGED <<term, competitors, seen_apps, rq, snapshot, requests, first,
                   dropped>>
    /\ UNCHANGED evars

\* the results list ends without a match
MixcamEnd ==
    /\ pc = "mixcam_loop"
    /\ recv >= 1
    /\ pc' = "terms"
    /\ UNCHANGED <<term, recv, mixcam, competitors, seen_apps, rq, snapshot,
                   requests, first, dropped, raised>>
    /\ UNCHANGED evars

\* after the last search term comes the sort
AfterTerm(n) == IF n = NumTerms THEN "sort" ELSE "terms"

\* lines 108-110: search_app_store(term) and the test of its result
TermSearch(o) ==
    /\ pc = "terms"
    /\ term < NumTerms
    /\ term' = term + 1
    /\ Issue("search", term + 1)
    /\ recv' = 0
    /\ pc' = IF NoData(o) THEN AfterTerm(term + 1)
             ELSE IF o = "list" THEN "term_loop"
             ELSE "crashed"
    /\ raised' = IF o = "nonmapping" THEN 110 ELSE IF o = "nonlist" THEN 111 ELSE 0
    /\ UNCHANGED <<mixcam, competitors, seen_apps, rq, snapshot, first, dropped>>
    /\ UNCHANGED evars

\* lines 112-125: the competitors and seen_apps after one element
Collected(app) ==
    IF IsNew(app)
    THEN [competitors |-> Append(competitors, Competitor(app)),
          seen_apps |-> seen_apps \cup {app.trackId}]
    ELSE [competitors |-> competitors, seen_apps |-> seen_apps]

\* lines 111-126: one element of results['results']
TermApp(app) ==
    /\ pc = "term_loop"
    /\ recv < MaxResults
    /\ recv' = recv + 1
    /\ IF TermAppRaises(app)
       THEN /\ pc' = "crashed"
            /\ raised' = IF app.kind = "dict" THEN 122 ELSE 112
            /\ UNCHANGED <<competitors, seen_apps, first, dropped>>
       ELSE /\ pc' = "term_loop"
            /\ competitors' = Collected(app).competitors
            /\ seen_apps' = Collected(app).seen_apps
            /\ first' = IF app.trackId # 0 /\ first[app.trackId] = NoFirst
                        THEN [first EXCEPT ![app.trackId] = Competitor(app)]
                        ELSE first
            /\ dropped' = IF /\ app.trackId # 0
                             /\ first[app.trackId] # NoFirst
                             /\ app.description.t # "none"
                             /\ first[app.trackId] # Competitor(app)
                          THEN TRUE ELSE dropped
            /\ UNCHANGED raised
    /\ UNCHANGED <<term, mixcam, rq, snapshot, requests>>
    /\ UNCHANGED evars

\* line 127: the results list ends
TermEnd ==
    /\ pc = "term_loop"
    /\ recv >= 1
    /\ pc' = AfterTerm(term)
    /\ UNCHANGED <<term, recv, mixcam, competitors, seen_apps, rq, snapshot,
                   requests, first, dropped, raised>>
    /\ UNCHANGED evars

\* lines 130-134
RankCompetitors ==
    /\ pc = "sort"
    /\ IF SortRaises(competitors)
       THEN pc' = "crashed" /\ raised' = 130 /\ UNCHANGED competitors
       ELSE pc' = "reddit" /\ competitors' = Ranked(competitors)
                           /\ UNCHANGED raised
    /\ UNCHANGED <<term, recv, mixcam, seen_apps, rq, snapshot, requests, first,
                   dropped>>
    /\ UNCHANGED evars

\* what the body of a reddit response can be
RedditOutcomes ==
    {"exception", "non200", "badjson", "falsy", "nochildren", "posts",
     "malformed"}

\* lines 144-152: one reddit query.  "malformed" is a body whose shape makes
\* lines 146-151 raise: a body or 'data' that is no object, 'children' that
\* is no list, a post that is no object, a title that is null
RedditQuery(o) ==
    /\ pc = "reddit"
    /\ rq < NumReddit
    /\ rq' = rq + 1
    /\ Issue("reddit", rq + 1)
    /\ pc' = IF o = "malformed" THEN "crashed"
             ELSE IF rq + 1 = NumReddit THEN "save"
             ELSE "reddit"
    /\ raised' = IF o = "malformed" THEN 146 ELSE 0
    /\ UNCHANGED <<term, recv, mixcam, competitors, seen_apps, snapshot, first,
                   dropped>>
    /\ UNCHANGED evars

\* lines 155-157: json.dump(research_data, f, indent=2)
Save ==
    /\ pc = "save"
    /\ snapshot' = [written |-> TRUE, mixcam |-> mixcam,
                    competitors |-> competitors]
    /\ pc' = "done"
    /\ UNCHANGED <<term, recv, mixcam, competitors, seen_apps, rq, requests,
                   first, dropped, raised>>
    /\ UNCHANGED evars

\* the results the model lets the mixcam search return
MixApps ==
    {App(id, name, Num(48), 50, Str(txt_desc)) :
        id \in {0, 1}, name \in {Str(txt_MixCam), Str(txt_Duo), NoneV, AbsentV}}
    \cup {NonMappingApp}

\* the results the model lets a competitor search return
TermApps ==
    {App(id, Str(txt_Duo), rating, count, desc) :
        id \in 0..MaxIds, rating \in {AbsentV} \cup {Num(r) : r \in Ratings},
        count \in Counts, desc \in {Str(txt_desc), NoneV}}
    \cup {NonMappingApp}

Next ==
    \/ \E o \in Outcomes : MixcamSearch(o)
    \/ \E app \in MixApps : MixcamApp(app)
    \/ MixcamEnd
    \/ \E o \in Outcomes : TermSearch(o)
    \/ \E app \in TermApps : TermApp(app)
    \/ TermEnd
    \/ RankCompetitors
    \/ \E o \in RedditOutcomes : RedditQuery(o)
    \/ Save

Init == InitCollector /\ InitEnricherIdle

Spec == Init /\ [][Next]_vars

(***************************************************************************)
(* The ranking step on its own: candidates with distinct trackIds and      *)
(* numeric ratings are collected by lines 112-125, then ranked.            *)
(***************************************************************************)
\* the (rating, rating_count) pairs of the candidates
RankKeys == {<<35, 100>>, <<48, 50>>, <<48, 200>>}

InitRank == InitCollector /\ InitEnricherIdle

\* lines 112-125 for a record with a trackId not seen before
AddCandidate(app) ==
    /\ pc \in {"mixcam", "term_loop"}
    /\ Len(competitors) < MaxCandidates
    /\ app.trackId = Len(competitors) + 1
    /\ pc' = "term_loop"
    /\ competitors' = Collected(app).competitors
    /\ seen_apps' = Collected(app).seen_apps
    /\ UNCHANGED <<term, recv, mixcam, rq, snapshot, requests, first, dropped,
                   raised>>
    /\ UNCHANGED evars

\* the last results list ends
CandidatesEnd ==
    /\ pc = "term_loop"
    /\ pc' = "sort"
    /\ UNCHANGED <<term, recv, mixcam, competitors, seen_apps, rq, snapshot,
                   requests, first, dropped, raised>>
    /\ UNCHANGED evars

NextRank ==
    \/ \E k \in RankKeys :
          AddCandidate(App(Len(competitors) + 1, Str(txt_Duo), Num(k[1]), k[2],
                           Str(txt_desc)))
    \/ CandidatesEnd
    \/ RankCompetitors

SpecRank == InitRank /\ [][NextRank]_vars

(***************************************************************************)
(* Properties of the collector.                                            *)
(***************************************************************************)
Collecting == pc \in {"terms", "term_loop", "sort"}
AfterSort == pc \in {"reddit", "save", "done"}

\* C1: the competitor list holds at most one entry per trackId, every entry
\* is the one built from the first record received with its trackId, and
\* while the results are collected every trackId received has its entry.
C1_DedupFirstWins ==
    /\ \A i, j \in 1..Len(competitors) :
          i # j => competitors[i].id # competitors[j].id
    /\ \A i \in 1..Len(competitors) :
          first[competitors[i].id] = competitors[i]
    /\ Collecting =>
          \A id \in 1..MaxIds :
              first[id] # NoFirst =>
                  \E i \in 1..Len(competitors) : competitors[i].id = id

\* C1: the results are collected and a later record of a seen trackId, with
\* other content than the first, was received
C1_Witness == pc = "sort" /\ dropped /\ Len(competitors) >= 2

\* a >= b in the order (rating, rating_count), ratings numeric
KeyGE(a, b) ==
    \/ a.rating.v > b.rating.v
    \/ a.rating.v = b.rating.v /\ a.rating_count >= b.rating_count

IsTopRanking(before, after) ==
    /\ Len(after) = Min(TopN, Len(before))
    /\ \A i \in 1..Len(after) : after[i] \in Range(before)
    /\ \A i, j \in 1..Len(after) :
          i < j => after[i] # after[j] /\ KeyGE(after[i], after[j])
    /\ \A j \in 1..Len(before) :
          before[j] \notin Range(after) =>
              \A i \in 1..Len(after) : KeyGE(after[i], before[j])

\* C2: the ranking step leaves the first min(10, n) of the n candidates in
\* descending order of (rating, rating_count), rating first, and no
\* candidate it drops ranks above one it keeps.
C2_RankedTopTen ==
    [][pc = "sort" /\ pc' = "reddit" =>
          IsTopRanking(competitors, competitors')]_vars

\* C2: more than ten candidates of both ratings were ranked and cut to ten
C2_Witness ==
    /\ pc = "reddit"
    /\ Cardinality(seen_apps) > TopN
    /\ Len(competitors) = TopN
    /\ competitors[1].rating # competitors[TopN].rating
    /\ \E i \in 1..(TopN - 1) :
          /\ competitors[i].rating = competitors[i + 1].rating
          /\ competitors[i].rating_count > competitors[i + 1].rating_count

RatingOrZero(c) == IF c.rating.t = "num" THEN c.rating.v ELSE 0

\* C3: with candidates that have no rating the ranking step completes, and
\* orders them as if their rating were 0.
C3_AbsentRatingRanksAsZero ==
    /\ raised # 130
    /\ AfterSort =>
          \A i, j \in 1..Len(competitors) :
              i < j => RatingOrZero(competitors[i]) >= RatingOrZero(competitors[j])

AllRequests ==
    [i \in 1..(1 + NumTerms + NumReddit) |->
        IF i <= 1 + NumTerms
        THEN [api |-> "search", q |-> i - 1]
        ELSE [api |-> "reddit", q |-> i - 1 - NumTerms]]

\* C7: whatever the requests answer, the collector never ends in an
\* unhandled failure, issues every query once and in order, and ends by
\* writing the snapshot.
C7_FailuresTolerated ==
    /\ pc # "crashed"
    /\ Len(requests) <= Len(AllRequests)
    /\ \A i \in 1..Len(requests) : requests[i] = AllRequests[i]
    /\ pc = "done" => requests = AllRequests /\ snapshot.written

Tied(a, b) == a.rating = b.rating /\ a.rating_count = b.rating_count

PosIn(list, x) == CHOOSE i \in 1..Len(list) : list[i] = x

\* C9: two candidates equal on rating and rating_count keep, in the ranked
\* list, the order in which they were inserted.
C9_StableRanking ==
    [][pc = "sort" /\ pc' = "reddit" =>
          \A i, j \in 1..Len(competitors') :
              (i < j /\ Tied(competitors'[i], competitors'[j])) =>
                  PosIn(competitors, competitors'[i])
                      < PosIn(competitors, competitors'[j])]_vars

\* C9: a ranked list with two tied candidates, the one with the larger
\* trackId inserted first
C9_Witness ==
    /\ pc = "reddit"
    /\ \E i, j \in 1..Len(competitors) :
          /\ i < j
          /\ Tied(competitors[i], competitors[j])
          /\ competitors[i].id > competitors[j].id

(***************************************************************************)
(* detailed_feature_research.py                                            *)
(***************************************************************************)
feature_keywords ==
    <<<<"w","i","s","h">>,
      <<"n","e","e","d">>,
      <<"s","h","o","u","l","d">>,
      <<"a","d","d">>,
      <<"f","e","a","t","u","r","e">>,
      <<"w","a","n","t">>,
      <<"w","o","u","l","d"," ","l","i","k","e">>,
      <<"m","i","s","s","i","n","g">>>>

positive_keywords ==
    <<<<"l","o","v","e">>,
      <<"g","r","e","a","t">>,
      <<"a","w","e","s","o","m","e">>,
      <<"b","e","s","t">>,
      <<"p","e","r","f","e","c","t">>,
      <<"a","m","a","z","i","n","g">>,
      <<"e","x","c","e","l","l","e","n","t">>>>

Digits == <<"0","1","2","3","4","5","6","7","8","9">>

IsDigit(c) == \E d \in 1..Len(Digits) : Digits[d] = c

DigitValue(c) == (CHOOSE d \in 1..Len(Digits) : Digits[d] = c) - 1

\* int(text) raises ValueError: the text is no decimal numeral (signs,
\* blanks and underscores, which int() also reads, are not among the inputs)
IntRaises(text) == text = <<>> \/ \E i \in 1..Len(text) : ~IsDigit(text[i])

\* int(text)
RECURSIVE IntOf(_)
IntOf(text) ==
    IF text = <<>> THEN 0
    ELSE 10 * IntOf(SubSeq(text, 1, Len(text) - 1)) + DigitValue(text[Len(text)])

\* One field of a feed entry: the key is missing (AbsentV), its value is no
\* JSON object ([t |-> "other"]), or it is an object whose label is
\* missing, null or a text.
Field(label) == [t |-> "dict", label |-> label]
OtherField == [t |-> "other", label |-> AbsentV]
AbsentField == [t |-> "absent", label |-> AbsentV]

Review(rating, title, content) ==
    [kind |-> "dict", rating |-> rating, title |-> title, content |-> content]

NonMappingReview ==
    [kind |-> "other", rating |-> AbsentField, title |-> AbsentField,
     content |-> AbsentField]

\* review.get(key, {}).get('label', default) raises AttributeError
LabelRaises(field) == field.t = "other"

\* review.get(key, {}).get('label', default)
Label(field, default) ==
    IF field.t = "absent" \/ field.label.t = "absent" THEN Str(default)
    ELSE field.label

\* lines 35-37 raise on this review
ReviewRaises(review) ==
    \/ review.kind # "dict"
    \/ LabelRaises(review.content)
    \/ Label(review.content, <<>>).t # "str"
    \/ LabelRaises(review.title)
    \/ Label(review.title, <<>>).t # "str"
    \/ LabelRaises(review.rating)
    \/ Label(review.rating, <<"0">>).t # "str"
    \/ IntRaises(Label(review.rating, <<"0">>).v)

\* the line of lines 35-37 that raises
RaisingLine(review) ==
    IF \/ review.kind # "dict"
       \/ LabelRaises(review.content)
       \/ Label(review.content, <<>>).t # "str" THEN 35
    ELSE IF \/ LabelRaises(review.title)
            \/ Label(review.title, <<>>).t # "str" THEN 36
    ELSE 37

\* any(keyword in full_text for keyword in keywords)
AnyIn(keywords, text) == \E k \in 1..Len(keywords) : In(keywords[k], text)

\* line 42
ComplaintRule(rating) == rating <= 3

\* line 51
FeatureRule(text) == AnyIn(feature_keywords, text)

\* a positive rule that forgets the rating
PositiveRuleAnyRating(rating, text) == AnyIn(positive_keywords, text)

\* lines 58-60
PositiveRule(rating, text) == rating >= 4 /\ AnyIn(positive_keywords, text)

\* lines 35-64 for one review on which lines 35-37 do not raise: the
\* fields of the records and the three decisions
Analysis(review) ==
    LET content == Lower(Label(review.content, <<>>).v)
        title == Lower(Label(review.title, <<>>).v)
        rating == IntOf(Label(review.rating, <<"0">>).v)
        full_text == title \o <<" ">> \o content
    IN [rating |-> rating,
        title |-> Label(review.title, <<>>).v,
        snippet |-> Take(content, SnippetLen),
        complaint |-> ComplaintRule(rating),
        feature |-> FeatureRule(full_text),
        positive |-> PositiveRule(rating, full_text)]

\* lines 43-47; src records the position of the review in the input
ComplaintRecord(a, i) ==
    [src |-> i, rating |-> a.rating, title |-> a.title, snippet |-> a.snippet]

\* lines 52-55 and 61-64
TextRecord(a, i) == [src |-> i, rating |-> a.rating, text |-> a.snippet]

(***************************************************************************)
(* main() of the enricher, lines 209-266, with get_app_reviews and         *)
(* analyze_reviews.                                                        *)
(***************************************************************************)
\* lines 213-218: the snapshot is loaded and the app id read.  json.load
\* gives back the document json.dump wrote: its values are texts, numbers,
\* null, lists and objects with text keys.
LoadSnapshot ==
    /\ pc \in {"done", "crashed"}
    /\ epc = "idle"
    /\ data' = snapshot
    /\ IF ~snapshot.written
       THEN epc' = "crashed" /\ eraised' = 213
       ELSE IF snapshot.mixcam = EmptyDict
       THEN epc' = "crashed" /\ eraised' = 218
       ELSE epc' = "fetch" /\ eraised' = 0
    /\ UNCHANGED <<page, fetched, all_reviews, idx, complaints,
                   features_requested, positive_features, enriched>>
    /\ UNCHANGED cvars

\* what the request of one review page can end in
PageOutcomes ==
    {"exception", "badjson", "nonmapping", "badfeed",   \* the except clause
     "non200",                                          \* the page is skipped
     "nofeed", "noentry", "other",                      \* 200, no entries
     "list", "dict"}                                    \* 200, entries

\* lines 15-22 raise: requests.get, response.json(), data.get of a body
\* that is no object, .get of a 'feed' that is no object
PageRaises(o) == o \in {"exception", "badjson", "nonmapping", "badfeed"}

\* lines 18-22: what the page adds to all_reviews
PageReviews(o, entries) ==
    IF o = "list" THEN entries
    ELSE IF o = "dict" THEN <<entries[1]>>
    ELSE <<>>

\* how many reviews the body of the page holds
Held(o, entries) ==
    IF o = "list" THEN Len(entries) ELSE IF o = "dict" THEN 1 ELSE 0

\* the page requested after this one; the except clause of line 24 is
\* outside the for loop, so a page that raises ends the loop
AfterPage(o, n) == IF PageRaises(o) \/ n = MaxPages THEN "analyze" ELSE "fetch"

\* lines 13-23: one page of get_app_reviews
FetchPage(o, entries) ==
    /\ epc = "fetch"
    /\ page < MaxPages
    /\ o = "dict" => Len(entries) = 1
    /\ o \notin {"list", "dict"} => entries = <<>>
    /\ page' = page + 1
    /\ fetched' = Append(fetched, Held(o, entries))
    /\ all_reviews' = all_reviews \o PageReviews(o, entries)
    /\ epc' = AfterPage(o, page + 1)
    /\ UNCHANGED <<data, idx, complaints, features_requested,
                   positive_features, enriched, eraised>>
    /\ UNCHANGED cvars

\* lines 34-64: the review at position i of the input
Analyzed(review, i) ==
    IF ReviewRaises(review)
    THEN /\ epc' = "crashed"
         /\ eraised' = RaisingLine(review)
         /\ UNCHANGED <<complaints, features_requested, positive_features>>
    ELSE LET a == Analysis(review)
         IN /\ complaints' =
                  IF a.complaint
                  THEN Append(complaints, ComplaintRecord(a, i))
                  ELSE complaints
            /\ features_requested' =
                  IF a.feature
                  THEN Append(features_requested, TextRecord(a, i))
                  ELSE features_requested
            /\ positive_features' =
                  IF a.positive
                  THEN Append(positive_features, TextRecord(a, i))
                  ELSE positive_features
            /\ UNCHANGED <<epc, eraised>>

\* lines 34-64: one review of analyze_reviews
AnalyzeReview ==
    /\ epc = "analyze"
    /\ idx < Len(all_reviews)
    /\ idx' = idx + 1
    /\ Analyzed(all_reviews[idx + 1], idx + 1)
    /\ UNCHANGED <<data, page, fetched, all_reviews, enriched>>
    /\ UNCHANGED cvars

\* lines 34-64 on a list received one review at a time: the next review of
\* the list is this one
AnalyzeNext(review) ==
    /\ epc = "analyze"
    /\ idx = Len(all_reviews)
    /\ idx < MaxReviews
    /\ all_reviews' = Append(all_reviews, review)
    /\ idx' = idx + 1
    /\ Analyzed(review, idx + 1)
    /\ UNCHANGED <<data, page, fetched, enriched>>
    /\ UNCHANGED cvars

\* line 66: analyze_reviews returns
AnalyzeEnd ==
    /\ epc = "analyze"
    /\ idx = Len(all_reviews)
    /\ epc' = "competitors"
    /\ UNCHANGED <<data, page, fetched, all_reviews, idx, complaints,
                   features_requested, positive_features, enriched, eraised>>
    /\ UNCHANGED cvars

\* 'Dual' in competitor['name'] raises TypeError for a name that is None
NameTestRaises(list) ==
    \E i \in 1..Min(5, Len(list)) : list[i].name.t = "none"

\* lines 232-235
CompetitorLoop ==
    /\ epc = "competitors"
    /\ IF NameTestRaises(data.competitors)
       THEN epc' = "crashed" /\ eraised' = 233
       ELSE epc' = "save" /\ UNCHANGED eraised
    /\ UNCHANGED <<data, page, fetched, all_reviews, idx, complaints,
                   features_requested, positive_features, enriched>>
    /\ UNCHANGED cvars

\* lines 239-264
SaveEnriched ==
    /\ epc = "save"
    /\ enriched' =
          [written |-> TRUE,
           mixcam |-> data.mixcam,
           competitors |-> data.competitors,
           review_analysis |->
              [total_reviews_analyzed |-> Len(all_reviews),
               complaints |-> Take(complaints, BucketCap),
               feature_requests |-> Take(features_requested, BucketCap),
               positive_mentions |-> Take(positive_features, BucketCap)]]
    /\ epc' = "done"
    /\ UNCHANGED <<data, page, fetched, all_reviews, idx, complaints,
                   features_requested, positive_features, eraised>>
    /\ UNCHANGED cvars

(***************************************************************************)
(* The inputs of the enricher.                                             *)
(***************************************************************************)
txt_Wish == <<"W","i","s","h">>
txt_would == <<"w","o","u","l","d">>
txt_like_it == <<"l","i","k","e"," ","i","t">>
txt_LOVE_it == <<"L","O","V","E"," ","i","t">>
txt_Bad == <<"B","a","d">>
txt_five == <<"f","i","v","e">>

\* a review content of LongLen characters whose last word is a keyword
txt_long ==
    [i \in 1..LongLen |->
        IF i > LongLen - 4 THEN <<"B","e","s","t">>[i - (LongLen - 4)]
        ELSE IF i % 2 = 1 THEN "A" ELSE "b"]

Titles == {txt_Wish, txt_would}
Contents == {txt_like_it, txt_LOVE_it, txt_Bad}
RatingLabels == {<<Digits[r + 1]>> : r \in 1..5}

\* the reviews of the data model: rating 1-5, title, content; the long
\* content comes with a low and with a high rating
WellFormedReviews ==
    {Review(Field(Str(r)), Field(Str(t)), Field(Str(c))) :
        r \in RatingLabels, t \in Titles, c \in Contents}
    \cup {Review(Field(Str(r)), Field(Str(<<>>)), Field(Str(txt_long))) :
            r \in {<<"2">>, <<"5">>}}

\* reviews with a missing or malformed field
MalformedReviews ==
    {Review(AbsentField, Field(Str(txt_Wish)), Field(Str(txt_Bad))),
     Review(Field(Str(<<"5">>)), AbsentField, Field(AbsentV)),
     Review(Field(Str(txt_five)), Field(Str(txt_Wish)), Field(Str(txt_Bad))),
     Review(Field(NoneV), Field(Str(txt_Wish)), Field(Str(txt_Bad))),
     Review(Field(Str(<<"2">>)), Field(NoneV), Field(Str(txt_Bad))),
     Review(Field(Str(<<"2">>)), Field(Str(txt_Wish)), OtherField),
     NonMappingReview}

ReviewDomain == WellFormedReviews \cup MalformedReviews

\* the sequences over S of at most n elements
SeqsUpTo(S, n) == UNION {[1..k -> S] : k \in 0..n}

(***************************************************************************)
(* analyze_reviews on its own.                                             *)
(***************************************************************************)
InitReviews == InitCollector /\ InitEnricherAt("analyze", <<>>)

NextReviews ==
    \/ \E review \in ReviewDomain : AnalyzeNext(review)
    \/ AnalyzeEnd

SpecReviews == InitReviews /\ [][NextReviews]_vars

(***************************************************************************)
(* get_app_reviews on its own.                                             *)
(***************************************************************************)
\* the reviews the model lets a feed page hold
PageReviewDomain ==
    {Review(Field(Str(r)), Field(Str(txt_Wish)), Field(Str(txt_Bad))) :
        r \in {<<"2">>, <<"5">>}}

InitFetch == InitCollector /\ InitEnricherAt("fetch", <<>>)

NextFetch ==
    \E o \in PageOutcomes, entries \in SeqsUpTo(PageReviewDomain, MaxEntries) :
        FetchPage(o, entries)

SpecFetch == InitFetch /\ [][NextFetch]_vars

(***************************************************************************)
(* The collector followed by the enricher.                                 *)
(***************************************************************************)
\* the results the model lets a competitor search return here
LifeApps ==
    {App(1, name, Num(48), 50, Str(txt_desc)) : name \in {Str(txt_Duo), AbsentV}}

\* the reviews the model lets a feed page hold here
LifeReviews ==
    {Review(Field(Str(<<"5">>)), Field(Str(txt_Wish)), Field(Str(txt_LOVE_it))),
     Review(Field(Str(txt_five)), Field(Str(txt_Wish)), Field(Str(txt_Bad)))}

NextLife ==
    \/ \E o \in Outcomes : MixcamSearch(o)
    \/ \E app \in MixApps : MixcamApp(app)
    \/ MixcamEnd
    \/ \E o \in Outcomes : TermSearch(o)
    \/ \E app \in LifeApps : TermApp(app)
    \/ TermEnd
    \/ RankCompetitors
    \/ \E o \in RedditOutcomes : RedditQuery(o)
    \/ Save
    \/ LoadSnapshot
    \/ \E o \in PageOutcomes, entries \in SeqsUpTo(LifeReviews, 1) :
          FetchPage(o, entries)
    \/ AnalyzeReview
    \/ AnalyzeEnd
    \/ CompetitorLoop
    \/ SaveEnriched

SpecLife == Init /\ [][NextLife]_vars

(***************************************************************************)
(* Properties of the enricher.                                             *)
(***************************************************************************)
\* the keyword sets of the classification rules
FeatureWords ==
    {<<"w","i","s","h">>,
     <<"n","e","e","d">>,
     <<"s","h","o","u","l","d">>,
     <<"a","d","d">>,
     <<"f","e","a","t","u","r","e">>,
     <<"w","a","n","t">>,
     <<"w","o","u","l","d"," ","l","i","k","e">>,
     <<"m","i","s","s","i","n","g">>}

PositiveWords ==
    {<<"l","o","v","e">>,
     <<"g","r","e","a","t">>,
     <<"a","w","e","s","o","m","e">>,
     <<"b","e","s","t">>,
     <<"p","e","r","f","e","c","t">>,
     <<"a","m","a","z","i","n","g">>,
     <<"e","x","c","e","l","l","e","n","t">>}

\* some stretch of the text is the word
HasWord(word, text) ==
    \E i \in 1..(Len(text) - Len(word) + 1) :
        SubSeq(text, i, i + Len(word) - 1) = word

\* a review of the data model: an object with text title and content and
\* a rating label that is one of "1" .. "5"
WellFormed(review) ==
    /\ review.kind = "dict"
    /\ review.rating.t = "dict" /\ review.rating.label.t = "str"
    /\ review.title.t = "dict" /\ review.title.label.t = "str"
    /\ review.content.t = "dict" /\ review.content.label.t = "str"
    /\ \E r \in 1..5 : review.rating.label.v = <<Digits[r + 1]>>

RatingAsGiven(review) ==
    CHOOSE r \in 1..5 : review.rating.label.v = <<Digits[r + 1]>>

\* the lower-cased text "title content"
SearchText(review) ==
    Lower(review.title.label.v \o <<" ">> \o review.content.label.v)

\* the positions, in the input, of the reviews a bucket holds
Sources(bucket) == {bucket[k].src : k \in 1..Len(bucket)}

InInputOrder(bucket) ==
    \A k, l \in 1..Len(bucket) : k < l => bucket[k].src < bucket[l].src

C5_SnippetIsContentPrefix ==
    /\ \A k \in 1..Len(complaints) :
          WellFormed(all_reviews[complaints[k].src]) =>
              complaints[k].snippet =
                  Take(all_reviews[complaints[k].src].content.label.v, SnippetLen)
    /\ \A k \in 1..Len(features_requested) :
          WellFormed(all_reviews[features_requested[k].src]) =>
              features_requested[k].text =
                  Take(all_reviews[features_requested[k].src].content.label.v,
                       SnippetLen)
    /\ \A k \in 1..Len(positive_features) :
          WellFormed(all_reviews[positive_features[k].src]) =>
              positive_features[k].text =
                  Take(all_reviews[positive_features[k].src].content.label.v,
                       SnippetLen)

\* the rating of a review, 0 when it is missing or malformed
RatingOrDefault(review) ==
    IF /\ review.kind = "dict"
       /\ review.rating.t = "dict"
       /\ review.rating.label.t = "str"
       /\ ~IntRaises(review.rating.label.v)
    THEN IntOf(review.rating.label.v)
    ELSE 0

\* C6: analyze_reviews raises on no review record whose rating, title or
\* content is missing or malformed; such a review is classified with rating
\* 0 or empty text, and the reviews after it are classified too.
C6_MalformedTolerated ==
    /\ epc = "crashed" => all_reviews[idx].kind # "dict"
    /\ \A i \in 1..idx :
          all_reviews[i].kind = "dict" =>
              (i \in Sources(complaints) <=>
                  RatingOrDefault(all_reviews[i]) <= 3)

RECURSIVE Sum(_)
Sum(seq) == IF seq = <<>> THEN 0 ELSE Head(seq) + Sum(Tail(seq))

\* C8: when get_app_reviews returns, every page up to max_pages has been
\* requested, and all_reviews holds the reviews of every page whose request
\* gave any, one for a feed whose entry is a single object.
C8_PageFailureIsLocal ==
    /\ Len(all_reviews) = Sum(fetched)
    /\ epc = "analyze" => page = MaxPages

\* C10: the enricher, run on a snapshot the collector wrote, does not end
\* in an unhandled failure.
C10_SnapshotEnrichable == snapshot.written => epc # "crashed"

=============================================================================
